---------------------------- MODULE Spec2Model ----------------------------
(***************************************************************************)
(* Model of src/main.py: the loader that derives a deal month for every    *)
(* row of a sales sheet from its free-text status column, the six metric   *)
(* functions over the prepared table, and main's load / compute / print    *)
(* control flow.                                                           *)
(*                                                                         *)
(* Text is a sequence of Unicode code points, so that the regular          *)
(* expression of the loader, str.split and the dictionary lookup of        *)
(* parse_month_year are computed on characters.  A float is an exact       *)
(* fraction [num, den].  A timestamp is [nat, year, month, day]; nat marks *)
(* pandas' NaT, whose .dt.month and .dt.year are NaN and compare False.    *)
(*                                                                         *)
(* The sheets of the model have at least one data row, a numeric sum and   *)
(* a string in the kind, document and sale cells.                          *)
(***************************************************************************)
EXTENDS Integers, Sequences, FiniteSets

VARIABLES
    file,     \* the sheet behind file_path: [exists, problem, rows]
    pc,       \* main's position: "load", "m1" .. "m6", "done"
    df,       \* the prepared table, <<>> until the load has succeeded
    loaded,   \* TRUE once load_and_prepare_data has returned a table
    started,  \* the metric functions called so far, in call order
    out       \* the lines printed so far, in print order

vars == <<file, pc, df, loaded, started, out>>

---------------------------------------------------------------------------
(* Bounds of the model: the number of data rows of a sheet, per input set. *)
MaxRowsStatus == 3
MaxRowsRevenue == 3
MaxRowsTop == 3
MaxRowsOriginals == 2
MaxRowsBonus == 2
MaxRowsBonusDisplay == 2
MaxRowsMain == 2

---------------------------------------------------------------------------
(* Text *)

\* "Январь" .. "Декабрь", the keys of month_year_dict
Yanvar == <<1071, 1085, 1074, 1072, 1088, 1100>>
Fevral == <<1060, 1077, 1074, 1088, 1072, 1083, 1100>>
Mart == <<1052, 1072, 1088, 1090>>
Aprel == <<1040, 1087, 1088, 1077, 1083, 1100>>
Mai == <<1052, 1072, 1081>>
Iyun == <<1048, 1102, 1085, 1100>>
Iyul == <<1048, 1102, 1083, 1100>>
Avgust == <<1040, 1074, 1075, 1091, 1089, 1090>>
Sentyabr == <<1057, 1077, 1085, 1090, 1103, 1073, 1088, 1100>>
Oktyabr == <<1054, 1082, 1090, 1103, 1073, 1088, 1100>>
Noyabr == <<1053, 1086, 1103, 1073, 1088, 1100>>
Dekabr == <<1044, 1077, 1082, 1072, 1073, 1088, 1100>>

\* the dictionary of parse_month_year, as the sequence of its keys: the value
\* of key month_year_dict[m] is m
month_year_dict ==
    <<Yanvar, Fevral, Mart, Aprel, Mai, Iyun,
      Iyul, Avgust, Sentyabr, Oktyabr, Noyabr, Dekabr>>

\* 'ОПЛАЧЕНО', 'ПРОСРОЧЕНО'
OPLACHENO == <<1054, 1055, 1051, 1040, 1063, 1045, 1053, 1054>>
PROSROCHENO == <<1055, 1056, 1054, 1057, 1056, 1054, 1063, 1045, 1053, 1054>>
\* 'новая', 'текущая'
novaya == <<1085, 1086, 1074, 1072, 1103>>
tekushchaya == <<1090, 1077, 1082, 1091, 1097, 1072, 1103>>
\* 'оригинал'
original == <<1086, 1088, 1080, 1075, 1080, 1085, 1072, 1083>>
\* 'копия', a document kind other than the original
kopiya == <<1082, 1086, 1087, 1080, 1103>>

\* [А-Яа-я]: U+0410 .. U+044F (neither Ё nor ё)
IsCyrillic(c) == c \in 1040..1103
\* \d: the ASCII digits (the sheets of the model hold no other decimal digit)
IsDigit(c) == c \in 48..57
\* \s and the separators of str.split: the whitespace below U+0100
IsSpace(c) == c \in {9, 10, 11, 12, 13, 28, 29, 30, 31, 32, 133, 160}

Slice(s, a, b) == [k \in 1..(b - a + 1) |-> s[a + k - 1]]

\* ([А-Яа-я]+)\s(\d{4}) matched at start position p with the letters ending at q
MatchAt(s, p, q) ==
    /\ p <= q
    /\ q + 5 <= Len(s)
    /\ \A k \in p..q : IsCyrillic(s[k])
    /\ IsSpace(s[q + 1])
    /\ \A k \in (q + 2)..(q + 5) : IsDigit(s[k])

\* re.search(month_year_pattern, status): the leftmost start, then the longest
\* run of letters; [found, month, year] with month = group(1), year = group(2)
re_search(s) ==
    LET starts == {p \in 1..Len(s) : \E q \in p..Len(s) : MatchAt(s, p, q)}
    IN  IF starts = {}
        THEN [found |-> FALSE, month |-> <<>>, year |-> <<>>]
        ELSE LET p == CHOOSE x \in starts : \A y \in starts : x <= y
                 q == CHOOSE x \in p..Len(s) :
                        /\ MatchAt(s, p, x)
                        /\ \A y \in p..Len(s) : MatchAt(s, p, y) => y <= x
             IN  [found |-> TRUE,
                  month |-> Slice(s, p, q),
                  year |-> Slice(s, q + 2, q + 5)]

\* str.split(): the maximal runs of non-whitespace characters, in order
RECURSIVE SplitFrom(_, _, _)
SplitFrom(s, i, word) ==
    IF i > Len(s)
    THEN IF word = <<>> THEN <<>> ELSE <<word>>
    ELSE IF IsSpace(s[i])
         THEN IF word = <<>>
              THEN SplitFrom(s, i + 1, <<>>)
              ELSE <<word>> \o SplitFrom(s, i + 1, <<>>)
         ELSE SplitFrom(s, i + 1, Append(word, s[i]))

split(s) == SplitFrom(s, 1, <<>>)

\* int() of a run of ASCII digits
RECURSIVE DigitsValue(_)
DigitsValue(d) ==
    IF d = <<>> THEN 0
    ELSE 10 * DigitsValue(SubSeq(d, 1, Len(d) - 1)) + (d[Len(d)] - 48)

---------------------------------------------------------------------------
(* Timestamps and fractions *)

NaT == [nat |-> TRUE, year |-> 0, month |-> 0, day |-> 0]
Timestamp(y, m, d) == [nat |-> FALSE, year |-> y, month |-> m, day |-> d]

\* pd.to_datetime(f"01 {month} {year}", format='%d %m %Y'): year 0000 is no
\* calendar year and raises (the sheets of the model hold no year outside the
\* range of a nanosecond timestamp); [ok, value]
to_datetime_01(month, year) ==
    IF DigitsValue(year) = 0
    THEN [ok |-> FALSE, value |-> NaT]
    ELSE [ok |-> TRUE, value |-> Timestamp(DigitsValue(year), month, 1)]

Frac(n, d) == [num |-> n, den |-> d]
FracEq(a, b) == a.num * b.den = b.num * a.den


\* round() of num/den to an integer, half to even (numpy)
Round(num, den) ==
    LET fl == num \div den
        twice == 2 * (num - fl * den)
    IN  IF twice < den THEN fl
        ELSE IF twice > den THEN fl + 1
        ELSE IF fl % 2 = 0 THEN fl ELSE fl + 1

\* Series.round(2) of a float: the neighbouring multiples of 0.01, as counts of
\* hundredths.  A float that is no decimal tie has one; at a decimal tie the
\* binary value of the float decides, so both neighbours are outcomes.
Round2(q) ==
    LET fl == (100 * q.num) \div q.den
    IN  {n \in {fl, fl + 1} :
            LET diff == 100 * q.num - n * q.den
            IN  2 * (IF diff < 0 THEN -diff ELSE diff) <= q.den}

\* .dt.month / .dt.year compared with a number: False on NaT
dt_month_eq(ts, m) == ~ts.nat /\ ts.month = m
dt_month_lt(ts, m) == ~ts.nat /\ ts.month < m
dt_year_eq(ts, y) == ~ts.nat /\ ts.year = y

\* Python's str order: by code point, a proper prefix first
RECURSIVE StrLess(_, _)
StrLess(a, b) ==
    IF b = <<>> THEN FALSE
    ELSE IF a = <<>> THEN TRUE
    ELSE IF a[1] # b[1] THEN a[1] < b[1]
    ELSE StrLess(Tail(a), Tail(b))

RECURSIVE SumOver(_, _)
SumOver(f, S) ==
    IF S = {} THEN 0
    ELSE LET x == CHOOSE y \in S : TRUE
         IN  f[x] + SumOver(f, S \ {x})

---------------------------------------------------------------------------
(* The loader *)

None == [isstr |-> FALSE, text |-> <<>>]
Str(t) == [isstr |-> TRUE, text |-> t]

\* the position of key in month_year_dict, 0 when it is no key
DictIndex(key) ==
    IF \E m \in 1..Len(month_year_dict) : month_year_dict[m] = key
    THEN CHOOSE m \in 1..Len(month_year_dict) : month_year_dict[m] = key
    ELSE 0

parse_month_year(x) ==
    IF ~x.isstr THEN NaT
    ELSE LET parts == split(x.text)
         IN  IF Len(parts) # 2 THEN NaT
             ELSE LET month_name == parts[1]
                      year == parts[2]
                  IN  IF DictIndex(month_name) = 0 THEN NaT
                      ELSE to_datetime_01(DictIndex(month_name), year).value

\* current_month_year after the loop body has run on rows 1..i
RECURSIVE current_month_year(_, _)
current_month_year(rows, i) ==
    IF i = 0 THEN None
    ELSE LET status == rows[i].status
             match == re_search(status.text)
         IN  IF status.isstr /\ match.found
             THEN Str(match.month \o <<32>> \o match.year)
             ELSE current_month_year(rows, i - 1)

\* df['sum'] after to_numeric, * 100, round and astype('Int64')
sum_to_kopecks(cell) == Round(cell.num * 100, cell.den)

\* pd.to_datetime(..., format='%d.%m.%Y', errors='coerce') of one cell
receiving_date_of(cell) ==
    IF cell.valid THEN Timestamp(cell.year, cell.month, cell.day) ELSE NaT

load_and_prepare_data(rows) ==
    [i \in 1..Len(rows) |->
        [sum |-> sum_to_kopecks(rows[i].sum),
         status |-> rows[i].status,
         receiving_date |-> receiving_date_of(rows[i].receiving_date),
         kind |-> rows[i].kind,
         document |-> rows[i].document,
         sale |-> rows[i].sale,
         month_year |-> parse_month_year(current_month_year(rows, i))]]

\* what load_and_prepare_data raises on this file; "" when it returns
load_error(f, file_path) ==
    IF ~f.exists
    THEN [type |-> "FileNotFoundError", path |-> file_path, cause |-> ""]
    ELSE IF f.problem # ""
    THEN [type |-> "ValueError", path |-> "", cause |-> f.problem]
    ELSE [type |-> "", path |-> "", cause |-> ""]

---------------------------------------------------------------------------
(* The metrics *)

is_paid(row) == row.status.isstr /\ row.status.text = OPLACHENO
is_overdue(row) == row.status.isstr /\ row.status.text = PROSROCHENO

Amounts(t) == [i \in 1..Len(t) |-> t[i].sum]

\* july_revenue_row without the test of the year
july_revenue_row_any_year(row) ==
    /\ dt_month_eq(row.month_year, 7)
    /\ is_paid(row)

july_revenue_row(row) ==
    /\ dt_month_eq(row.month_year, 7)
    /\ dt_year_eq(row.month_year, 2021)
    /\ is_paid(row)

calculate_july_revenue(t) ==
    Frac(SumOver(Amounts(t), {i \in 1..Len(t) : july_revenue_row(t[i])}), 100)

\* monthly_revenue of plot_revenue_trend: groupby('month_year') drops NaT keys
monthly_revenue(t) ==
    LET paid == {i \in {i \in 1..Len(t) : is_paid(t[i])} : ~t[i].month_year.nat}
        keys == {t[i].month_year : i \in paid}
    IN  [k \in keys |->
            Frac(SumOver(Amounts(t), {i \in paid : t[i].month_year = k}), 100)]

september_revenue_row(row) ==
    /\ dt_month_eq(row.month_year, 9)
    /\ dt_year_eq(row.month_year, 2021)
    /\ is_paid(row)

\* groupby('sale')['sum'].sum()
manager_revenue(t) ==
    LET sel == {i \in 1..Len(t) : september_revenue_row(t[i])}
    IN  [s \in {t[i].sale : i \in sel} |->
            SumOver(Amounts(t), {i \in sel : t[i].sale = s})]

\* idxmax returning the last label holding the maximum
idxmax_last(series) ==
    CHOOSE k \in DOMAIN series :
        /\ \A j \in DOMAIN series : series[j] <= series[k]
        /\ \A j \in DOMAIN series :
              series[j] = series[k] /\ j # k => StrLess(j, k)

\* Series.idxmax() of a groupby result: the index is sorted by key and the first
\* label holding the maximum is returned
idxmax(series) ==
    CHOOSE k \in DOMAIN series :
        /\ \A j \in DOMAIN series : series[j] <= series[k]
        /\ \A j \in DOMAIN series :
              series[j] = series[k] /\ j # k => StrLess(k, j)

find_top_manager(t) ==
    LET revenue == manager_revenue(t)
    IN  IF DOMAIN revenue = {}
        THEN [top_manager |-> None, top_revenue |-> Frac(0, 1)]
        ELSE [top_manager |-> Str(idxmax(revenue)),
              top_revenue |-> Frac(revenue[idxmax(revenue)], 100)]

october_deals_row(row) ==
    /\ dt_month_eq(row.month_year, 10)
    /\ dt_year_eq(row.month_year, 2021)

\* the labels idxmax may return for deal_type_counts: value_counts() orders equal
\* counts as its sort leaves them; {None} when there are no October deals
find_dominant_deal_type(t) ==
    LET sel == {i \in 1..Len(t) : october_deals_row(t[i])}
        count(k) == Cardinality({i \in sel : t[i].kind = k})
        kinds == {t[i].kind : i \in sel}
    IN  IF kinds = {} THEN {None}
        ELSE {Str(k) : k \in {x \in kinds : \A y \in kinds : count(y) <= count(x)}}

may_deals_row(row) ==
    /\ dt_month_eq(row.month_year, 5)
    /\ dt_year_eq(row.month_year, 2021)

\* may_originals_june_row without the test of the year of receipt
may_originals_june_row_any_year(row) ==
    /\ row.document = original
    /\ dt_month_eq(row.receiving_date, 6)

may_originals_june_row(row) ==
    /\ row.document = original
    /\ dt_month_eq(row.receiving_date, 6)
    /\ dt_year_eq(row.receiving_date, 2021)

count_originals_in_june(t) ==
    LET may_deals == {i \in 1..Len(t) : may_deals_row(t[i])}
    IN  Cardinality({i \in may_deals : may_originals_june_row(t[i])})

before_july_deals_row(row) ==
    /\ dt_month_lt(row.month_year, 7)
    /\ dt_year_eq(row.month_year, 2021)

new_deals_row(row) ==
    /\ before_july_deals_row(row)
    /\ row.kind = novaya
    /\ is_paid(row)
    /\ row.document = original
    /\ dt_month_lt(row.receiving_date, 7)

current_deals_row(row) ==
    /\ before_july_deals_row(row)
    /\ row.kind = tekushchaya
    /\ ~is_overdue(row)
    /\ row.document = original
    /\ dt_month_lt(row.receiving_date, 7)

\* the new-deal lambda with the rate of a current deal
new_bonus_current_rate(amount) == 5 * amount

\* the lambdas of calculate_bonus, as the numerator over 10000:
\* row['sum'] * 0.07 / 100 is 7 * sum / 10000
new_bonus(amount) == 7 * amount
current_bonus(amount) == IF amount > 10000 THEN 5 * amount ELSE 3 * amount

\* total_bonuses.groupby('sale')['bonus'].sum()
calculate_bonus(t) ==
    LET new_deals == {i \in 1..Len(t) : new_deals_row(t[i])}
        current_deals == {i \in 1..Len(t) : current_deals_row(t[i])}
        bonus == [i \in 1..Len(t) |->
                    IF i \in new_deals THEN new_bonus(t[i].sum)
                    ELSE current_bonus(t[i].sum)]
        total == new_deals \cup current_deals
    IN  [s \in {t[i].sale : i \in total} |->
            Frac(SumOver(bonus, {i \in total : t[i].sale = s}), 10000)]

---------------------------------------------------------------------------
(* main *)

file_path == "data.xlsx"

\* a printed line: its name, and the value the statement printed it for
Line(name, value) == [line |-> name, value |-> value]

\* the try block of the analysis, in statement order: m1 .. m6, then the end
NextPc(p) ==
    CASE p = "m1" -> "m2"
      [] p = "m2" -> "m3"
      [] p = "m3" -> "m4"
      [] p = "m4" -> "m5"
      [] p = "m5" -> "m6"
      [] OTHER -> "done"

\* a call of the metric function named fn
Call(fn) == started' = Append(started, fn)

\* the statement at pc has run to its end, printing lines
Returns(lines) ==
    /\ out' = out \o lines
    /\ pc' = NextPc(pc)

\* Raises with the except clause inside the statement: the next one still runs
Raises_and_continues(lines) ==
    /\ out' = out \o lines \o <<Line("analysis_error", "Exception")>>
    /\ pc' = NextPc(pc)

\* a call of the statement at pc raised, after lines were printed:
\* except Exception as e: print(f"Ошибка в процессе анализа: {e}")
Raises(lines) ==
    /\ out' = out \o lines \o <<Line("analysis_error", "Exception")>>
    /\ pc' = "done"

\* LoadFails without the return
LoadFails_no_return ==
    /\ pc = "load"
    /\ load_error(file, file_path).type # ""
    /\ out' = Append(out, Line("load_error", load_error(file, file_path)))
    /\ pc' = "m1"
    /\ UNCHANGED <<file, df, loaded, started>>

\* df = load_and_prepare_data(file_path) raised:
\* print(f"Ошибка при загрузке данных: {e}"); return
LoadFails ==
    /\ pc = "load"
    /\ load_error(file, file_path).type # ""
    /\ out' = Append(out, Line("load_error", load_error(file, file_path)))
    /\ pc' = "done"
    /\ UNCHANGED <<file, df, loaded, started>>

LoadReturns ==
    /\ pc = "load"
    /\ load_error(file, file_path).type = ""
    /\ df' = load_and_prepare_data(file.rows)
    /\ loaded' = TRUE
    /\ pc' = "m1"
    /\ UNCHANGED <<file, started, out>>

\* Задача 1
Task1 ==
    /\ pc = "m1"
    /\ Call("calculate_july_revenue")
    /\ \/ Returns(<<Line("revenue", calculate_july_revenue(df))>>)
       \/ Raises(<<>>)
    /\ UNCHANGED <<file, df, loaded>>

\* Задача 2: the heading is printed before plot_revenue_trend is called
Task2 ==
    /\ pc = "m2"
    /\ Call("plot_revenue_trend")
    /\ \/ Returns(<<Line("chart_heading", ""), Line("chart", monthly_revenue(df))>>)
       \/ Raises(<<Line("chart_heading", "")>>)
    /\ UNCHANGED <<file, df, loaded>>

\* Задача 3: if top_manager: ... else: ...  (an empty name is false)
Task3 ==
    /\ pc = "m3"
    /\ Call("find_top_manager")
    /\ \/ Returns(<<IF find_top_manager(df).top_manager.text # <<>>
                    THEN Line("top_manager", find_top_manager(df))
                    ELSE Line("no_top_manager", find_top_manager(df))>>)
       \/ Raises(<<>>)
    /\ UNCHANGED <<file, df, loaded>>

\* Задача 4
Task4 ==
    /\ pc = "m4"
    /\ Call("find_dominant_deal_type")
    /\ \/ \E dominant_deal_type \in find_dominant_deal_type(df) :
             Returns(<<IF dominant_deal_type.text # <<>>
                       THEN Line("deal_type", dominant_deal_type)
                       ELSE Line("no_deal_type", "")>>)
       \/ Raises(<<>>)
    /\ UNCHANGED <<file, df, loaded>>

\* Задача 5
Task5 ==
    /\ pc = "m5"
    /\ Call("count_originals_in_june")
    /\ \/ Returns(<<Line("originals", count_originals_in_june(df))>>)
       \/ Raises(<<>>)
    /\ UNCHANGED <<file, df, loaded>>

\* manager_bonuses.round(2), as the numerators over 100
rounded_bonuses(bonuses) ==
    {r \in [DOMAIN bonuses -> UNION {Round2(bonuses[s]) : s \in DOMAIN bonuses}] :
        \A s \in DOMAIN bonuses : r[s] \in Round2(bonuses[s])}

\* Задача 6
Task6 ==
    /\ pc = "m6"
    /\ Call("calculate_bonus")
    /\ \/ \E r \in rounded_bonuses(calculate_bonus(df)) :
             Returns(<<Line("bonus_heading", ""),
                       Line("bonus", [s \in DOMAIN r |-> Frac(r[s], 100)])>>)
       \/ Raises(<<>>)
    /\ UNCHANGED <<file, df, loaded>>

Next ==
    \/ LoadFails
    \/ LoadReturns
    \/ Task1
    \/ Task2
    \/ Task3
    \/ Task4
    \/ Task5
    \/ Task6

---------------------------------------------------------------------------
(* The sheets of the model *)

\* status cells: texts and the empty cell (NaN, not a str)
EmptyCell == None
T_Mai2021 == Str(Mai \o <<32, 50, 48, 50, 49>>)
T_Mai2020 == Str(Mai \o <<32, 50, 48, 50, 48>>)
T_Iyun2021 == Str(Iyun \o <<32, 50, 48, 50, 49>>)
T_Iyul2021 == Str(Iyul \o <<32, 50, 48, 50, 49>>)
T_Iyul2020 == Str(Iyul \o <<32, 50, 48, 50, 48>>)
T_Sentyabr2021 == Str(Sentyabr \o <<32, 50, 48, 50, 49>>)
T_Oktyabr2021 == Str(Oktyabr \o <<32, 50, 48, 50, 49>>)
T_Oplacheno == Str(OPLACHENO)
T_Prosrocheno == Str(PROSROCHENO)
\* "Договор 2020": a word that is no month name, and a year
T_Dogovor2020 == Str(<<1044, 1086, 1075, 1086, 1074, 1086, 1088, 32, 50, 48, 50, 48>>)
\* "Договор 2020 Май 2021"
T_Dogovor2020Mai2021 == Str(T_Dogovor2020.text \o <<32>> \o T_Mai2021.text)
\* "май 2021", "НеМай 2021", "xМай 2021", "Май  2021", "Май 202"
T_mai2021 == Str(<<1084, 1072, 1081, 32, 50, 48, 50, 49>>)
T_NeMai2021 == Str(<<1053, 1077>> \o T_Mai2021.text)
T_xMai2021 == Str(<<120>> \o T_Mai2021.text)
T_MaiTwoSpaces2021 == Str(Mai \o <<32, 32, 50, 48, 50, 49>>)
T_Mai202 == Str(Mai \o <<32, 50, 48, 50>>)

\* salespersons "А" and "Б"
SaleA == <<1040>>
SaleB == <<1041>>

Date(y, m) == [valid |-> TRUE, year |-> y, month |-> m, day |-> 15]
NoDate == [valid |-> FALSE, year |-> 0, month |-> 0, day |-> 0]

RowsOf(statuses, sums, dates, kinds, documents, sales) ==
    [status : statuses, sum : sums, receiving_date : dates,
     kind : kinds, document : documents, sale : sales]

Sheets(rowset, max) == UNION {[1..n -> rowset] : n \in 1..max}

Files(rowset, max) ==
    {[exists |-> FALSE, problem |-> "", rows |-> <<>>],
     [exists |-> TRUE, problem |-> "BadZipFile", rows |-> <<>>]}
    \cup {[exists |-> TRUE, problem |-> "", rows |-> r] : r \in Sheets(rowset, max)}

InitWith(files) ==
    /\ file \in files
    /\ pc = "load"
    /\ df = <<>>
    /\ loaded = FALSE
    /\ started = <<>>
    /\ out = <<>>

StatusRows ==
    RowsOf({T_Mai2021, T_Iyul2021, T_Oplacheno, EmptyCell, T_Dogovor2020,
            T_Dogovor2020Mai2021, T_mai2021, T_NeMai2021, T_xMai2021,
            T_MaiTwoSpaces2021, T_Mai202},
           {Frac(100, 1)}, {Date(2021, 6)}, {novaya}, {original}, {SaleA})

RevenueRows ==
    RowsOf({T_Iyul2021, T_Iyul2020, T_Iyun2021},
           {Frac(5000, 1)}, {Date(2021, 7)}, {novaya}, {original}, {SaleA})
    \cup RowsOf({T_Oplacheno, T_Prosrocheno, EmptyCell},
                {Frac(5000, 1), Frac(300000, 100)},
                {Date(2021, 7)}, {novaya}, {original}, {SaleA})

TopRows ==
    RowsOf({T_Sentyabr2021, T_Oktyabr2021},
           {Frac(100, 1)}, {NoDate}, {novaya}, {kopiya}, {SaleA})
    \cup RowsOf({T_Oplacheno, T_Prosrocheno},
                {Frac(100, 1), Frac(200, 1)},
                {NoDate}, {novaya}, {kopiya}, {SaleA, SaleB})

OriginalsRows ==
    RowsOf({T_Mai2021, T_Mai2020, T_Iyun2021},
           {Frac(100, 1)}, {Date(2021, 6), Date(2021, 7)},
           {novaya}, {original}, {SaleA})
    \cup RowsOf({T_Oplacheno},
                {Frac(100, 1)},
                {Date(2021, 6), Date(2021, 7), Date(2020, 6), NoDate},
                {novaya}, {original, kopiya}, {SaleA})

BonusRows ==
    RowsOf({T_Mai2021, T_Iyul2021},
           {Frac(100, 1)}, {NoDate}, {novaya}, {kopiya}, {SaleA})
    \cup RowsOf({T_Oplacheno, T_Prosrocheno},
                {Frac(100, 1), Frac(5000, 1), Frac(10000, 1), Frac(20000, 1)},
                {Date(2021, 6), Date(2021, 7), Date(2022, 3)},
                {novaya, tekushchaya}, {original}, {SaleB})

BonusDisplayRows ==
    RowsOf({T_Mai2021, T_Iyul2021},
           {Frac(100, 1)}, {NoDate}, {novaya}, {kopiya}, {SaleA})
    \cup RowsOf({T_Oplacheno, T_Prosrocheno},
                {Frac(50, 100), Frac(12345, 100), Frac(10000, 1)},
                {Date(2021, 6)},
                {novaya, tekushchaya}, {original}, {SaleA, SaleB})

InitStatus == InitWith(Files(StatusRows, MaxRowsStatus))
InitRevenue == InitWith(Files(RevenueRows, MaxRowsRevenue))
InitTop == InitWith(Files(TopRows, MaxRowsTop))
InitOriginals == InitWith(Files(OriginalsRows, MaxRowsOriginals))
InitBonus == InitWith(Files(BonusRows, MaxRowsBonus))
InitBonusDisplay == InitWith(Files(BonusDisplayRows, MaxRowsBonusDisplay))

SpecStatus == InitStatus /\ [][Next]_vars
SpecRevenue == InitRevenue /\ [][Next]_vars
SpecTop == InitTop /\ [][Next]_vars
SpecOriginals == InitOriginals /\ [][Next]_vars
SpecBonus == InitBonus /\ [][Next]_vars
SpecBonusDisplay == InitBonusDisplay /\ [][Next]_vars

\* sheets for main's control flow
MainRows ==
    RowsOf({T_Iyul2021, T_Sentyabr2021, T_Oplacheno},
           {Frac(5000, 1)}, {Date(2021, 6)}, {novaya, tekushchaya}, {original}, {SaleA})

Init == InitWith(Files(MainRows, MaxRowsMain))
Spec == Init /\ [][Next]_vars

---------------------------------------------------------------------------
(* The deal month as the specification words it: the first month-name token  *)
(* of the latest row that holds one, a month-name token being a run of       *)
(* letters that is one of the twelve month names, then one whitespace        *)
(* character, then a four-digit year.                                        *)

MonthTokenAt(text, p, m) ==
    LET name == month_year_dict[m]
        q == p + Len(name) - 1
    IN  /\ q + 5 <= Len(text)
        /\ \A k \in 1..Len(name) : text[p + k - 1] = name[k]
        /\ p = 1 \/ ~IsCyrillic(text[p - 1])
        /\ IsSpace(text[q + 1])
        /\ \A k \in (q + 2)..(q + 5) : IsDigit(text[k])

TokenStarts(text) ==
    {p \in 1..Len(text) : \E m \in 1..12 : MonthTokenAt(text, p, m)}

HasMonthToken(cell) == cell.isstr /\ TokenStarts(cell.text) # {}

FirstMonthToken(cell) ==
    LET p == CHOOSE x \in TokenStarts(cell.text) :
                \A y \in TokenStarts(cell.text) : x <= y
        m == CHOOSE x \in 1..12 : MonthTokenAt(cell.text, p, x)
        q == p + Len(month_year_dict[m]) - 1
    IN  Timestamp(DigitsValue(Slice(cell.text, q + 2, q + 5)), m, 1)

RECURSIVE DealMonth(_, _)
DealMonth(rows, i) ==
    IF i = 0 THEN NaT
    ELSE IF HasMonthToken(rows[i].status) THEN FirstMonthToken(rows[i].status)
    ELSE DealMonth(rows, i - 1)

HasLine(name) == \E k \in 1..Len(out) : out[k].line = name
LineValue(name) == out[CHOOSE k \in 1..Len(out) : out[k].line = name].value

---------------------------------------------------------------------------
(* C1: when a row i holds a month-name token and none of the rows i+1..j     *)
(* holds one, the deal month of every row i..j is the first day of the month *)
(* and year read at row i; the rows before the first token have a null deal  *)
(* month.                                                                    *)
C1_CarriedForward ==
    loaded =>
        /\ \A i \in 1..Len(df) : \A j \in i..Len(df) :
              ( /\ HasMonthToken(file.rows[i].status)
                /\ \A r \in (i + 1)..j : ~HasMonthToken(file.rows[r].status) )
              => \A r \in i..j :
                    df[r].month_year = FirstMonthToken(file.rows[i].status)
        /\ \A j \in 1..Len(df) :
              (\A r \in 1..j : ~HasMonthToken(file.rows[r].status))
              => df[j].month_year = NaT

(* C2: only a month-name token changes the carried deal month and the first  *)
(* one of a row wins; a row whose status holds another word and a year, with *)
(* or without a month-name token after it, is no match for that word: the    *)
(* row takes its month-name token if it has one and else keeps the deal      *)
(* month of the row before it, and no deal month is null after a month was   *)
(* recognized.                                                               *)
C2_OnlyMonthNamesMatch ==
    loaded =>
        \A i \in 1..Len(df) :
            /\ HasMonthToken(file.rows[i].status)
                  => df[i].month_year = FirstMonthToken(file.rows[i].status)
            /\ ~HasMonthToken(file.rows[i].status)
                  => df[i].month_year = (IF i = 1 THEN NaT ELSE df[i - 1].month_year)
            /\ (i > 1 /\ ~df[i - 1].month_year.nat) => ~df[i].month_year.nat

---------------------------------------------------------------------------
(* The bonus *)

\* the receiving date lies before 1 July 2021
ReceivedBeforeJuly2021(row) ==
    /\ ~row.receiving_date.nat
    /\ \/ row.receiving_date.year < 2021
       \/ row.receiving_date.year = 2021 /\ row.receiving_date.month < 7

DealMonthBeforeJuly2021(row) ==
    /\ ~row.month_year.nat
    /\ row.month_year.year = 2021
    /\ row.month_year.month < 7

\* row i is the only row of its salesperson
OnlyRowOfItsSale(i) == \A j \in 1..Len(df) : j # i => df[j].sale # df[i].sale

(* C3: the bonus accrues from no deal received on or after 1 July 2021: the  *)
(* printed bonuses are those of the table without the rows whose receiving   *)
(* date is null or not before 1 July 2021.                                   *)
C3_NoBonusFromLateOriginals ==
    HasLine("bonus") =>
        LET printed == LineValue("bonus")
            claimed == calculate_bonus(SelectSeq(df, ReceivedBeforeJuly2021))
        IN  /\ DOMAIN printed = DOMAIN claimed
            /\ \A s \in DOMAIN printed : printed[s].num \in Round2(claimed[s])

C4_Qualifies(row) ==
    /\ DealMonthBeforeJuly2021(row)
    /\ row.kind = tekushchaya
    /\ ~is_overdue(row)
    /\ row.document = original
    /\ ReceivedBeforeJuly2021(row)

(* C4: a qualifying current deal earns amount x 0.0005 when its amount is    *)
(* above 1,000,000 minor units and amount x 0.0003 otherwise; read off the   *)
(* printed bonus of a salesperson whose only row it is.                      *)
C4_CurrentDealRate ==
    HasLine("bonus") =>
        \A i \in 1..Len(df) :
            C4_Qualifies(df[i]) /\ OnlyRowOfItsSale(i) =>
                /\ df[i].sale \in DOMAIN LineValue("bonus")
                /\ LineValue("bonus")[df[i].sale].num \in
                      Round2(Frac((IF df[i].sum > 1000000 THEN 5 ELSE 3) * df[i].sum,
                                  10000))

C5_Qualifies(row) ==
    /\ DealMonthBeforeJuly2021(row)
    /\ row.kind = novaya
    /\ is_paid(row)
    /\ row.document = original
    /\ ReceivedBeforeJuly2021(row)

Abs(x) == IF x < 0 THEN -x ELSE x

\* the printed bonus of the salesperson of row i, in hundredths
PrintedBonus(i) == LineValue("bonus")[df[i].sale].num

(* C5 as amended: the bonus printed for a salesperson whose only row is a    *)
(* qualifying new deal of amount a is 0.0007 x a rounded to two decimals,    *)
(* with no further division by 100: 700.00 for a = 1,000,000.                *)
C5_NewDealBonusPrinted ==
    HasLine("bonus") =>
        \A i \in 1..Len(df) :
            C5_Qualifies(df[i]) /\ OnlyRowOfItsSale(i) =>
                /\ df[i].sale \in DOMAIN LineValue("bonus")
                /\ LineValue("bonus")[df[i].sale].den = 100
                /\ Abs(100 * 7 * df[i].sum - 10000 * PrintedBonus(i)) <= 5000
                /\ df[i].sum = 1000000 => PrintedBonus(i) = 70000

(* C5 as written: the printed bonus is 0.0007 x a / 100 rounded to two       *)
(* decimals: 7.00 for a = 1,000,000.                                         *)
C5_PrintedDividedBy100 ==
    HasLine("bonus") =>
        \A i \in 1..Len(df) :
            C5_Qualifies(df[i]) /\ OnlyRowOfItsSale(i) =>
                /\ df[i].sale \in DOMAIN LineValue("bonus")
                /\ Abs(100 * 7 * df[i].sum - 1000000 * PrintedBonus(i)) <= 500000
                /\ df[i].sum = 1000000 => PrintedBonus(i) = 700

\* a single qualifying new deal of 1,000,000 minor units, printed as 700.00
C5_Witness ==
    /\ HasLine("bonus")
    /\ \E i \in 1..Len(df) :
          /\ C5_Qualifies(df[i]) /\ OnlyRowOfItsSale(i)
          /\ df[i].sum = 1000000
          /\ PrintedBonus(i) = 70000

---------------------------------------------------------------------------
(* The top manager *)

\* the rows of September 2021 with status paid, and their sum per salesperson
C6_Rows ==
    {i \in 1..Len(df) :
        DealMonth(file.rows, i) = Timestamp(2021, 9, 1) /\ is_paid(df[i])}
C6_Sum(s) == SumOver(Amounts(df), {i \in C6_Rows : df[i].sale = s})
C6_Best ==
    {s \in {df[i].sale : i \in C6_Rows} :
        \A i \in C6_Rows : C6_Sum(df[i].sale) <= C6_Sum(s)}
C6_FirstRow(s) ==
    CHOOSE i \in C6_Rows :
        df[i].sale = s /\ \A j \in C6_Rows : df[j].sale = s => i <= j
\* Task3 has just returned
C6_Task3Done == pc = "m4"

---------------------------------------------------------------------------
\* row i is a May 2021 deal whose original was received in June 2021
C7_Counted(i) ==
    /\ DealMonth(file.rows, i) = Timestamp(2021, 5, 1)
    /\ df[i].document = original
    /\ ~df[i].receiving_date.nat
    /\ df[i].receiving_date.year = 2021
    /\ df[i].receiving_date.month = 6

---------------------------------------------------------------------------
\* the rows of July 2021 with status paid
C8_Rows ==
    {i \in 1..Len(df) :
        DealMonth(file.rows, i) = Timestamp(2021, 7, 1) /\ is_paid(df[i])}

---------------------------------------------------------------------------
(* main's control flow *)

MetricLines ==
    {"revenue", "chart_heading", "chart", "top_manager", "no_top_manager",
     "deal_type", "no_deal_type", "originals", "bonus_heading", "bonus"}

LoadFailed == pc # "load" /\ ~loaded

(* C9: when load_and_prepare_data fails, with FileNotFoundError carrying the *)
(* path for a missing file and with ValueError wrapping the cause otherwise, *)
(* the error is printed, the run ends, no metric is ever called and no       *)
(* metric line is printed; no metric is called before the load succeeded.    *)
C9_LoadFailureIsFatal ==
    /\ ~loaded => started = <<>> /\ \A k \in 1..Len(out) : out[k].line \notin MetricLines
    /\ LoadFailed =>
          /\ pc = "done"
          /\ ~ENABLED Next
          /\ Len(out) = 1
          /\ out[1].line = "load_error"
          /\ out[1].value.type =
                (IF file.exists THEN "ValueError" ELSE "FileNotFoundError")
          /\ ~file.exists => out[1].value.path = file_path
          /\ file.exists => out[1].value.cause = file.problem

\* the file is missing and the run has ended on the load error
C9_Witness ==
    /\ LoadFailed
    /\ ~file.exists
    /\ pc = "done"
    /\ out = <<Line("load_error",
                    [type |-> "FileNotFoundError", path |-> file_path, cause |-> ""])>>

TaskOrder ==
    <<"calculate_july_revenue", "plot_revenue_trend", "find_top_manager",
      "find_dominant_deal_type", "count_originals_in_june", "calculate_bonus">>

\* the lines that metric k prints when it returns
LinesOfTask(k) ==
    CASE k = 1 -> {"revenue"}
      [] k = 2 -> {"chart"}
      [] k = 3 -> {"top_manager", "no_top_manager"}
      [] k = 4 -> {"deal_type", "no_deal_type"}
      [] k = 5 -> {"originals"}
      [] OTHER -> {"bonus"}

Printed(o, k) == \E j \in 1..Len(o) : o[j].line \in LinesOfTask(k)
Errors(o) == {j \in 1..Len(o) : o[j].line = "analysis_error"}
IsPrefix(a, b) == Len(a) <= Len(b) /\ SubSeq(b, 1, Len(a)) = a

\* the metrics were called in the fixed order; every metric called before the
\* last one has printed its result; after an error, raised by the last metric
\* called, that metric has printed no result, the error is the one last line
\* and the run has ended
C10_Shape ==
    /\ IsPrefix(started, TaskOrder)
    /\ \A k \in 1..6 : Printed(out, k) => k <= Len(started)
    /\ \A k \in 1..(Len(started) - 1) : Printed(out, k)
    /\ Errors(out) # {} =>
          /\ Errors(out) = {Len(out)}
          /\ started # <<>>
          /\ ~Printed(out, Len(started))
          /\ pc = "done"
          /\ ~ENABLED Next

(* C10: the six metrics run in the order revenue, chart, top manager,        *)
(* dominant deal type, originals count, bonus; when metric k is the first to *)
(* raise, the lines of metrics 1..k-1 are printed and stay printed, no       *)
(* metric after k is called, one analysis-error line is printed and the run  *)
(* ends.                                                                     *)
C10_FirstErrorEndsAnalysis ==
    [][IsPrefix(out, out') /\ IsPrefix(started, started') /\ C10_Shape']_vars

\* metric 3 raised: the lines of metrics 1 and 2 and the one error line are
\* printed, and metrics 4 to 6 were never called
C10_Witness ==
    /\ Len(started) = 3
    /\ Printed(out, 1) /\ Printed(out, 2)
    /\ Errors(out) = {Len(out)}
    /\ pc = "done"

=============================================================================
